---- MODULE Spec2Model ----
(***************************************************************************)
(* JappTracker: the classify / extract / reconcile pipeline of             *)
(* src/JappTracker.py.                                                     *)
(*                                                                         *)
(* Python strings are sequences of one-character strings, so that strip(), *)
(* lower(), upper() and capitalize() are computed rather than assumed.     *)
(* A Notion page is [id, parent, props]; props maps the property names of  *)
(* the database to their values.  The language model and the three remote  *)
(* services answer nondeterministically, failures included.                *)
(***************************************************************************)
EXTENDS Integers, Sequences, FiniteSets, TLC

\* ------------------------------------------------------------------ bounds
\* unread messages in the mailbox when a run starts
MaxMsgs == 2
\* spaces put before and after a sample string of the model's answer
MaxPad == 1
\* results per search page (the code asks for 100)
PageSize == 2
\* parts of a multi-part message
MaxParts == 3

\* --------------------------------------------------------- Python strings
LowerAlpha == <<"a","b","c","d","e","f","g","h","i","j","k","l","m",
                "n","o","p","q","r","s","t","u","v","w","x","y","z">>
UpperAlpha == <<"A","B","C","D","E","F","G","H","I","J","K","L","M",
                "N","O","P","Q","R","S","T","U","V","W","X","Y","Z">>

\* str.isspace for the characters of the model
IsSpace(c) == c \in {" ", "\t"}

LowerChar(c) ==
    IF \E i \in 1..26 : UpperAlpha[i] = c
    THEN LowerAlpha[CHOOSE i \in 1..26 : UpperAlpha[i] = c]
    ELSE c

UpperChar(c) ==
    IF \E i \in 1..26 : LowerAlpha[i] = c
    THEN UpperAlpha[CHOOSE i \in 1..26 : LowerAlpha[i] = c]
    ELSE c

\* str.lower()
PyLower(s) == [i \in 1..Len(s) |-> LowerChar(s[i])]

\* str.upper()
PyUpper(s) == [i \in 1..Len(s) |-> UpperChar(s[i])]

\* str.capitalize(): first character upper-cased, the rest lower-cased
PyCapitalize(s) ==
    [i \in 1..Len(s) |-> IF i = 1 THEN UpperChar(s[i]) ELSE LowerChar(s[i])]

RECURSIVE LStrip(_)
LStrip(s) == IF s # <<>> /\ IsSpace(Head(s)) THEN LStrip(Tail(s)) ELSE s

RECURSIVE RStrip(_)
RStrip(s) ==
    IF s # <<>> /\ IsSpace(s[Len(s)]) THEN RStrip(SubSeq(s, 1, Len(s) - 1)) ELSE s

\* str.strip()
PyStrip(s) == RStrip(LStrip(s))

\* ------------------------------------------------------- string literals
S_Applied   == <<"A","p","p","l","i","e","d">>
S_Interview == <<"I","n","t","e","r","v","i","e","w">>
S_Rejected  == <<"R","e","j","e","c","t","e","d">>
S_Unknown   == <<"U","n","k","n","o","w","n">>
S_unknown   == <<"u","n","k","n","o","w","n">>
S_null      == <<"n","u","l","l">>
S_None      == <<"N","o","n","e">>
S_True      == <<"T","r","u","e">>
S_False     == <<"F","a","l","s","e">>
S_YES       == <<"Y","E","S">>
S_UnknownRole == <<"U","n","k","n","o","w","n"," ","R","o","l","e">>
S_UnknownOrganization ==
    <<"U","n","k","n","o","w","n"," ","O","r","g","a","n","i","z","a","t","i","o","n">>

\* the three values of the Status property
StatusValues == {S_Applied, S_Interview, S_Rejected}

\* ------------------------------------------------ Python and JSON values
\* Python's None; not a string of the model's alphabet
None == <<"<None>">>

\* A JSON value of the model's answer: a string, null, a number or a boolean
JStr(s)  == [t |-> "str",  s |-> s,    n |-> 0, b |-> FALSE]
JNull    == [t |-> "null", s |-> <<>>, n |-> 0, b |-> FALSE]
JNum(n)  == [t |-> "num",  s |-> <<>>, n |-> n, b |-> FALSE]
JBool(b) == [t |-> "bool", s |-> <<>>, n |-> 0, b |-> b]

Digits == <<"0","1","2","3","4","5","6","7","8","9">>

\* str(v)
PyStr(v) ==
    CASE v.t = "str"  -> v.s
      [] v.t = "null" -> S_None
      [] v.t = "num"  -> <<Digits[v.n + 1]>>
      [] v.t = "bool" -> IF v.b THEN S_True ELSE S_False

\* bool(v): None, "", 0 and False are falsy
Truthy(v) ==
    CASE v.t = "str"  -> v.s # <<>>
      [] v.t = "null" -> FALSE
      [] v.t = "num"  -> v.n # 0
      [] v.t = "bool" -> v.b

\* data.get(key, default) on the parsed JSON object
DictGet(data, key, default) == IF key \in DOMAIN data THEN data[key] ELSE default

\* `if data:` for body.data: neither None nor empty
NonEmptyData(s) == s # None /\ s # <<>>

\* ---------------------------------------------- EmailReader (lines 36-140)
\* A payload or a part of it: its mimeType, whether it has the key 'parts',
\* its parts, and body.data after base64 decoding (None when there is none)
Part(mimeType, data) ==
    [mimeType |-> mimeType, hasParts |-> FALSE, parts |-> <<>>, data |-> data]

Multipart(mimeType, parts) ==
    [mimeType |-> mimeType, hasParts |-> TRUE, parts |-> parts, data |-> None]

\* the end of the first match of '<[^<]+?>' that starts at s[i] = "<": the
\* nearest ">" at i+2 or later with no "<" in between; 0 if there is none
TagEnd(s, i) ==
    LET ends == {j \in (i + 2)..Len(s) :
                    /\ s[j] = ">"
                    /\ \A m \in (i + 1)..(j - 1) : s[m] # "<"}
    IN  IF ends = {} THEN 0 ELSE CHOOSE j \in ends : \A m \in ends : j <= m

\* re.sub('<[^<]+?>', '', html), line 122, from position i on
RECURSIVE StripTagsFrom(_, _)
StripTagsFrom(s, i) ==
    IF i > Len(s)
    THEN <<>>
    ELSE IF s[i] = "<" /\ TagEnd(s, i) # 0
         THEN StripTagsFrom(s, TagEnd(s, i) + 1)
         ELSE <<s[i]>> \o StripTagsFrom(s, i + 1)

StripTags(html) == StripTagsFrom(html, 1)

\* lines 110-122: the loop over the parts, body being what was collected
RECURSIVE PartsBody(_, _)
PartsBody(parts, body) ==
    IF parts = <<>>
    THEN body
    ELSE LET part == Head(parts)
         IN  PartsBody(Tail(parts),
                IF part.mimeType = "text/plain"
                THEN IF NonEmptyData(part.data) THEN body \o part.data ELSE body
                ELSE IF part.mimeType = "text/html" /\ body = <<>>
                          /\ NonEmptyData(part.data)
                     THEN StripTags(part.data)
                     ELSE body)

\* _extract_body, lines 105-129
ExtractBody(payload) ==
    IF payload.hasParts
    THEN PartsBody(payload.parts, <<>>)
    ELSE IF payload.mimeType = "text/plain" /\ NonEmptyData(payload.data)
         THEN payload.data
         ELSE <<>>

\* email_data of get_email_content (lines 94-100), and {} (line 103)
EmailData(payload) == [empty |-> FALSE, payload |-> payload, body |-> ExtractBody(payload)]
NoEmailData == [empty |-> TRUE, payload |-> Part("", None), body |-> <<>>]

\* ------------------------------------------- EmailAnalyzer (lines 143-238)
\* is_job_application taking any answer that begins with YES
IsJobApplicationAnswerPrefix(content) ==
    IF content = None \/ content = <<>>
    THEN FALSE
    ELSE LET answer_ == PyUpper(PyStrip(content))
         IN  Len(answer_) >= 3 /\ SubSeq(answer_, 1, 3) = S_YES

\* is_job_application, lines 169-173: the answer counts only if it is YES
\* after strip().upper(); content is None for a missing answer
IsJobApplicationAnswer(content) ==
    IF content = None \/ content = <<>>
    THEN FALSE
    ELSE PyUpper(PyStrip(content)) = S_YES

\* the JobApplication dataclass (lines 28-34)
JobApplication(role, organization, link, status) ==
    [role |-> role, organization |-> organization,
     job_description_link |-> link, status |-> status]

\* Optional[JobApplication] = None
NoJob == JobApplication(None, None, None, None)

\* the status capitalized but not checked against the three values
ExtractStatusUnchecked(data) ==
    PyCapitalize(PyStrip(PyStr(DictGet(data, "status", JStr(S_Applied)))))

\* lines 213-216
ExtractStatus(data) ==
    LET status == PyCapitalize(PyStrip(PyStr(DictGet(data, "status", JStr(S_Applied)))))
    IN  IF status \notin StatusValues THEN S_Applied ELSE status

\* lines 219-224 and 231-232: role (key "role") and organization (key
\* "organization") go through the same check with their own placeholder
ExtractKeyField(data, key, placeholder) ==
    LET v == DictGet(data, key, JStr(S_Unknown))
        w == IF ~Truthy(v) \/ PyLower(PyStr(v)) \in {S_null, S_unknown}
             THEN JStr(placeholder)
             ELSE v
    IN  PyStrip(PyStr(w))

\* lines 226-228
ExtractLink(data) ==
    IF "job_description_link" \notin DOMAIN data
    THEN None
    ELSE LET v == data["job_description_link"]
         IN  IF Truthy(v) /\ PyStrip(PyStr(v)) # <<>> /\ v # JStr(S_null)
             THEN PyStrip(PyStr(v))
             ELSE None

\* extract_job_info, lines 206-238.  content.kind is
\*   "empty"     content is None or ""                   -> returns None
\*   "invalid"   json.loads raises JSONDecodeError       -> returns None
\*   "nonobject" valid JSON that is not an object: data.get raises
\*               AttributeError, which the except clause does not catch
\*   "object"    a JSON object, content.data
ExtractJobInfo(content) ==
    CASE content.kind = "empty"     -> [raised |-> FALSE, job |-> NoJob]
      [] content.kind = "invalid"   -> [raised |-> FALSE, job |-> NoJob]
      [] content.kind = "nonobject" -> [raised |-> TRUE,  job |-> NoJob]
      [] content.kind = "object"    ->
            [raised |-> FALSE,
             job |-> JobApplication(
                        ExtractKeyField(content.data, "role", S_UnknownRole),
                        ExtractKeyField(content.data, "organization", S_UnknownOrganization),
                        ExtractLink(content.data),
                        ExtractStatus(content.data))]

Content(kind, data) == [kind |-> kind, data |-> data]

\* ------------------------------------------- NotionManager (lines 241-408)
\* NOTION_DATABASE_ID, a 32-character id without hyphens
DatabaseId ==
    <<"0","1","2","3","4","5","6","7","8","9","a","b","c","d","e","f",
      "0","1","2","3","4","5","6","7","8","9","a","b","c","d","e","f">>

\* the parent of a page that belongs to some other database or page
OtherParentId == <<"o","t","h","e","r">>

\* _get_db_id_formats, lines 255-258: the id as given and the id with hyphens
GetDbIdFormats(database_id) ==
    {database_id,
     SubSeq(database_id, 1, 8) \o <<"-">> \o SubSeq(database_id, 9, 12) \o <<"-">>
       \o SubSeq(database_id, 13, 16) \o <<"-">> \o SubSeq(database_id, 17, 20)
       \o <<"-">> \o SubSeq(database_id, 21, Len(database_id))}

\* the id as the store reports it for the pages it creates
DatabaseIdWithHyphens == CHOOSE d \in GetDbIdFormats(DatabaseId) : d # DatabaseId

\* the property names of lines 248-253
PropNames == {"Number", "Role", "Organization", "Status", "Notes", "Job description"}

\* A page of the store.  Number 0 stands for an empty number, None for an
\* empty status or url, <<>> for an empty title or text.
Page(id, parent, number, role, organization, status, link) ==
    [id |-> id, parent |-> parent,
     props |-> [k \in PropNames |->
                  CASE k = "Number"          -> number
                    [] k = "Role"            -> role
                    [] k = "Organization"    -> organization
                    [] k = "Status"          -> status
                    [] k = "Notes"           -> <<>>
                    [] k = "Job description" -> link]]

\* client.search: the pages of the whole workspace come in pages of
\* page_size results; request k returns results (k-1)*page_size+1 .. k*page_size
SearchResults(st, k) ==
    SubSeq(st, (k - 1) * PageSize + 1,
           IF k * PageSize < Len(st) THEN k * PageSize ELSE Len(st))

\* a store that never reports more results
SearchHasMoreNever(st, k) == FALSE

\* has_more of request k
SearchHasMore(st, k) == k * PageSize < Len(st)

\* the number of search requests a full scan makes
NumRequests(st) ==
    IF Len(st) = 0 THEN 1 ELSE (Len(st) + PageSize - 1) \div PageSize

\* lines 267-286 and 307-336: the number of the request at which a scan that
\* starts with request k and finds no match leaves its loop
RECURSIVE ScanRequests(_, _)
ScanRequests(st, k) ==
    IF ~SearchHasMore(st, k) THEN k ELSE ScanRequests(st, k + 1)

\* lines 277-282: the maximum over one page of results
RECURSIVE MaxNumOfResults(_, _, _)
MaxNumOfResults(results, max_num, db_ids) ==
    IF results = <<>>
    THEN max_num
    ELSE LET page == Head(results)
             num  == page.props["Number"]
         IN  MaxNumOfResults(Tail(results),
                IF page.parent \in db_ids /\ num # 0 /\ num > max_num
                THEN num ELSE max_num,
                db_ids)

\* lines 267-286: the scan loop from request k on; request failAt raises
\* (failAt = 0: no request raises)
RECURSIVE NextNumberScan(_, _, _, _)
NextNumberScan(st, k, max_num, failAt) ==
    IF k = failAt
    THEN [raised |-> TRUE, max_num |-> max_num]
    ELSE LET m == MaxNumOfResults(SearchResults(st, k), max_num,
                                  GetDbIdFormats(DatabaseId))
         IN  IF ~SearchHasMore(st, k)
             THEN [raised |-> FALSE, max_num |-> m]
             ELSE NextNumberScan(st, k + 1, m, failAt)

\* get_next_number returning the largest number itself
GetNextNumberMax(st, failAt) ==
    LET scan == NextNumberScan(st, 1, 0, failAt)
    IN  IF scan.raised
        THEN 1
        ELSE IF scan.max_num > 0 THEN scan.max_num ELSE 1

\* get_next_number, lines 260-291
GetNextNumber(st, failAt) ==
    LET scan == NextNumberScan(st, 1, 0, failAt)
    IN  IF scan.raised
        THEN 1
        ELSE IF scan.max_num > 0 THEN scan.max_num + 1 ELSE 1

\* the match of lines 326-329 without the strip() of the page's texts
RECURSIVE FirstMatchExact(_, _, _, _)
FirstMatchExact(results, role, organization, db_ids) ==
    IF results = <<>>
    THEN 0
    ELSE LET page == Head(results)
         IN  IF /\ page.parent \in db_ids
                /\ page.props["Role"] = role
                /\ page.props["Organization"] = organization
             THEN page.id
             ELSE FirstMatchExact(Tail(results), role, organization, db_ids)

\* lines 317-330: the id of the first matching result of one page, 0 if none
RECURSIVE FirstMatch(_, _, _, _)
FirstMatch(results, role, organization, db_ids) ==
    IF results = <<>>
    THEN 0
    ELSE LET page == Head(results)
         IN  IF /\ page.parent \in db_ids
                /\ PyStrip(page.props["Role"]) = role
                /\ PyStrip(page.props["Organization"]) = organization
             THEN page.id
             ELSE FirstMatch(Tail(results), role, organization, db_ids)

\* lines 307-336: the scan loop from request k on; 0 stands for None
RECURSIVE JobExistsScan(_, _, _, _, _)
JobExistsScan(st, k, role, organization, failAt) ==
    IF k = failAt
    THEN 0
    ELSE LET hit == FirstMatch(SearchResults(st, k), role, organization,
                               GetDbIdFormats(DatabaseId))
         IN  IF hit # 0
             THEN hit
             ELSE IF ~SearchHasMore(st, k)
                  THEN 0
                  ELSE JobExistsScan(st, k + 1, role, organization, failAt)

\* a Python string that is neither None nor empty
NonEmpty(s) == s # None /\ s # <<>>

\* job_exists, lines 293-339; 0 stands for None
JobExists(st, role, organization, failAt) ==
    IF ~NonEmpty(role) \/ ~NonEmpty(organization)
    THEN 0
    ELSE IF PyStrip(role) = <<>> \/ PyStrip(organization) = <<>>
         THEN 0
         ELSE JobExistsScan(st, 1, PyStrip(role), PyStrip(organization), failAt)

\* lines 365-367 and 392-394
StatusValue(status) ==
    LET status_value == PyCapitalize(PyStrip(status))
    IN  IF status_value \notin StatusValues THEN S_Applied ELSE status_value

\* create_job_application without its checks of role and organization
CreateAcceptsAll(job) == TRUE

\* lines 343-351: does create_job_application go on to the store?
CreateAccepts(job) ==
    /\ NonEmpty(job.role) /\ NonEmpty(job.organization)
    /\ PyStrip(job.role) # <<>> /\ PyStrip(job.organization) # <<>>

\* lines 356-372: the properties create_job_application sends
CreateProperties(job, number) ==
    [k \in {"Number", "Role", "Organization", "Notes"}
          \cup (IF NonEmpty(job.status) THEN {"Status"} ELSE {})
          \cup (IF NonEmpty(job.job_description_link) THEN {"Job description"} ELSE {})
      |-> CASE k = "Number"          -> number
            [] k = "Role"            -> PyStrip(job.role)
            [] k = "Organization"    -> PyStrip(job.organization)
            [] k = "Notes"           -> <<>>
            [] k = "Status"          -> StatusValue(job.status)
            [] k = "Job description" -> job.job_description_link]

\* update_job_application sending the link even when the candidate has none
UpdatePropertiesAlwaysLink(job) ==
    [k \in (IF NonEmpty(job.status) THEN {"Status"} ELSE {}) \cup {"Job description"}
      |-> CASE k = "Status"          -> StatusValue(job.status)
            [] k = "Job description" -> job.job_description_link]

\* update_job_application sending the properties of a create, number included
UpdatePropertiesLikeCreate(job) ==
    [k \in {"Number", "Role", "Organization"}
          \cup (IF NonEmpty(job.status) THEN {"Status"} ELSE {})
          \cup (IF NonEmpty(job.job_description_link) THEN {"Job description"} ELSE {})
      |-> CASE k = "Number"          -> 1
            [] k = "Role"            -> job.role
            [] k = "Organization"    -> job.organization
            [] k = "Status"          -> StatusValue(job.status)
            [] k = "Job description" -> job.job_description_link]

\* lines 388-399: the properties update_job_application sends
UpdateProperties(job) ==
    [k \in (IF NonEmpty(job.status) THEN {"Status"} ELSE {})
          \cup (IF NonEmpty(job.job_description_link) THEN {"Job description"} ELSE {})
      |-> CASE k = "Status"          -> StatusValue(job.status)
            [] k = "Job description" -> job.job_description_link]

\* client.pages.create (line 374): a new page under the database, with the
\* properties sent and every other property empty
PagesCreate(st, properties) ==
    Append(st,
      [id |-> Len(st) + 1, parent |-> DatabaseIdWithHyphens,
       props |-> [k \in PropNames |->
                    IF k \in DOMAIN properties THEN properties[k]
                    ELSE CASE k = "Number" -> 0
                           [] k \in {"Role", "Organization", "Notes"} -> <<>>
                           [] OTHER -> None]])

\* pages.update filling in only the properties the page has none of
PagesUpdateOnlyEmpty(st, page_id, properties) ==
    [i \in 1..Len(st) |->
       IF st[i].id = page_id
       THEN [st[i] EXCEPT !.props =
               [k \in PropNames |->
                  IF k \in DOMAIN properties /\ st[i].props[k] = None
                  THEN properties[k] ELSE st[i].props[k]]]
       ELSE st[i]]

\* client.pages.update (line 402): the properties sent replace those of the
\* page, the others stay
PagesUpdate(st, page_id, properties) ==
    [i \in 1..Len(st) |->
       IF st[i].id = page_id
       THEN [st[i] EXCEPT !.props =
               [k \in PropNames |->
                  IF k \in DOMAIN properties THEN properties[k] ELSE st[i].props[k]]]
       ELSE st[i]]

\* ------------------------------------------------------------ sample data
S_SWE  == <<"S","W","E">>
S_Dev  == <<"D","e","v">>
S_Acme == <<"A","c","m","e">>
S_Url1 == <<"u","r","l","1">>
S_Url2 == <<"u","r","l","2">>

\* n spaces
RECURSIVE Pad(_)
Pad(n) == IF n = 0 THEN <<>> ELSE <<" ">> \o Pad(n - 1)

\* the empty dict
EmptyDict == [k \in {} |-> 0]

\* a JSON object from its keys and values
Obj(keys, vals) == [k \in {keys[i] : i \in 1..Len(keys)} |->
                      vals[CHOOSE i \in 1..Len(keys) : keys[i] = k]]

\* the stores a run may start from: no two pages of the database share a
\* trimmed (role, organization), their numbers are distinct and positive
InitStores ==
    { <<>>,
      << Page(1, DatabaseIdWithHyphens, 1, S_SWE, S_Acme, S_Applied, S_Url1) >>,
      << Page(1, OtherParentId, 7, S_SWE, S_Acme, S_Applied, None),
         Page(2, DatabaseId, 2, S_Dev, S_Acme, S_Interview, None),
         Page(3, DatabaseIdWithHyphens, 1, Pad(1) \o S_SWE, S_Acme \o Pad(1),
              S_Rejected, S_Url1) >> }

\* the answers of the classifier model (None: no content)
ClassifierAnswers ==
    { None, <<>>, S_YES, <<" ","y","e","s","\t">>, <<"N","O">>, <<"Y","E","S",".">> }

\* the answers of the extraction model in a run of the pipeline
ExtractAnswers ==
    { Content("empty", <<>>), Content("invalid", <<>>), Content("nonobject", <<>>),
      Content("object", EmptyDict),
      Content("object", Obj(<<"role", "organization", "status">>,
                            <<JStr(S_SWE), JStr(S_Acme), JStr(PyLower(S_Interview))>>)),
      Content("object", Obj(<<"role", "organization", "status", "job_description_link">>,
                            <<JStr(Pad(1) \o S_SWE), JStr(S_Acme \o Pad(1)),
                              JStr(<<"o","f","f","e","r">>), JStr(S_Url2 \o Pad(1))>>)),
      Content("object", Obj(<<"role", "organization", "job_description_link">>,
                            <<JStr(Pad(2)), JStr(S_Acme), JNull>>)),
      Content("object", Obj(<<"role", "organization", "status">>,
                            <<JStr(S_Dev), JStr(S_Acme),
                              JStr(Pad(1) \o PyUpper(S_Rejected) \o Pad(1))>>)) }

\* sample texts of a message: plain text and HTML
T_Hi    == <<"H","i">>
T_Bye   == <<"B","y","e">>
H_Hi    == <<"<","b",">","H","i","<","/","b",">">>
H_Ok    == <<"<","p",">","O","k">>
H_Break == <<"<","b","r",">">>

\* the payloads of the messages of the mailbox in a run of the pipeline
InboxPayloads ==
    { Multipart("multipart/alternative",
                <<Part("text/plain", T_Hi), Part("text/html", H_Hi)>>) }

\* max_emails of the entry point (line 505)
MaxEmails == 20

\* ------------------------------------------------------------------ state
VARIABLES
    store,      \* the pages of the Notion workspace, in search order
    unread,     \* the ids of the messages carrying the UNREAD label
    marked,     \* the ids mark_as_read was called for
    runs,       \* the invocations of process_emails
    pc,         \* pc[r]: where invocation r stands
    msgs,       \* msgs[r]: the list get_unread_emails returned
    idx,        \* idx[r]: the position of the current message in msgs[r]
    answer,     \* answer[r]: the classifier's answer for the current message
    resp,       \* resp[r]: the extraction model's answer for the current message
    job,        \* job[r]: the candidate, NoJob before extraction
    page_id,    \* page_id[r]: existing_page_id, 0 for None
    number,     \* number[r]: the number create_job_application computed
    props,      \* props[r]: the properties of the last create or update
    calls,      \* calls[r]: the calls made for the current message
    log,        \* log[r][i]: what became of message i of the run
    email       \* email[r]: email_data of the current message

vars == <<store, unread, marked, runs, pc, msgs, idx, answer, resp, job,
          page_id, number, props, calls, log, email>>

NoContent == Content("unset", <<>>)

\* the ids of unread messages in ascending order, at most n of them
RECURSIVE ListUnread(_, _)
ListUnread(ids, n) ==
    IF ids = {} \/ n = 0
    THEN <<>>
    ELSE LET m == CHOOSE x \in ids : \A y \in ids : x <= y
         IN  <<m>> \o ListUnread(ids \ {m}, n - 1)

\* the per-message locals at the top of an iteration
ResetLocals(r) ==
    /\ answer'  = [answer  EXCEPT ![r] = None]
    /\ resp'    = [resp    EXCEPT ![r] = NoContent]
    /\ job'     = [job     EXCEPT ![r] = NoJob]
    /\ page_id' = [page_id EXCEPT ![r] = 0]
    /\ number'  = [number  EXCEPT ![r] = 0]
    /\ props'   = [props   EXCEPT ![r] = EmptyDict]
    /\ calls'   = [calls   EXCEPT ![r] = {}]

InitRun(rs) ==
    /\ runs = rs
    /\ store \in InitStores
    /\ unread = 1..MaxMsgs
    /\ marked = {}
    /\ pc = [r \in rs |-> "start"]
    /\ msgs = [r \in rs |-> <<>>]
    /\ idx = [r \in rs |-> 0]
    /\ answer = [r \in rs |-> None]
    /\ resp = [r \in rs |-> NoContent]
    /\ job = [r \in rs |-> NoJob]
    /\ page_id = [r \in rs |-> 0]
    /\ number = [r \in rs |-> 0]
    /\ props = [r \in rs |-> EmptyDict]
    /\ calls = [r \in rs |-> {}]
    /\ log = [r \in rs |-> <<>>]
    /\ email = [r \in rs |-> NoEmailData]

\* one invocation of the pipeline
Init == InitRun({1})

\* ------------------------------- JobApplicationTracker.process_emails
\* the id of the message of the current iteration
MsgId(r) == msgs[r][idx[r]]

Called(r, c) == calls' = [calls EXCEPT ![r] = @ \cup c]

\* the outcome logged last by run r, "" if none yet
LastLog(r) == IF log[r] = <<>> THEN "" ELSE log[r][Len(log[r])]

Logged(r, outcome) == log' = [log EXCEPT ![r] = Append(@, outcome)]

\* the for loop staying once more on a message whose store write failed
NextMessageRetry(r) ==
    IF pc[r] = "mark" /\ LastLog(r) = "failed" /\ Len(log[r]) = idx[r]
    THEN /\ idx' = idx
         /\ pc' = [pc EXCEPT ![r] = "fetch"]
    ELSE IF idx[r] < Len(msgs[r])
         THEN /\ idx' = [idx EXCEPT ![r] = @ + 1]
              /\ pc' = [pc EXCEPT ![r] = "fetch"]
         ELSE /\ idx' = [idx EXCEPT ![r] = Len(msgs[r]) + 1]
              /\ pc' = [pc EXCEPT ![r] = "done"]

\* the for loop goes to its next message, or the function returns
NextMessage(r) ==
    IF idx[r] < Len(msgs[r])
    THEN /\ idx' = [idx EXCEPT ![r] = @ + 1]
         /\ pc' = [pc EXCEPT ![r] = "fetch"]
    ELSE /\ idx' = [idx EXCEPT ![r] = Len(msgs[r]) + 1]
         /\ pc' = [pc EXCEPT ![r] = "done"]

\* lines 421-428 with get_unread_emails (lines 63-75): the list of unread
\* messages, or the empty list on an HttpError
GetUnreadEmails(r) ==
    /\ pc[r] = "start"
    /\ \E ok \in BOOLEAN :
         LET messages == IF ok THEN ListUnread(unread, MaxEmails) ELSE <<>>
         IN  /\ msgs' = [msgs EXCEPT ![r] = messages]
             /\ IF messages = <<>>
                THEN /\ pc' = [pc EXCEPT ![r] = "done"]
                     /\ idx' = [idx EXCEPT ![r] = 1]
                ELSE /\ pc' = [pc EXCEPT ![r] = "fetch"]
                     /\ idx' = [idx EXCEPT ![r] = 1]
    /\ UNCHANGED <<store, unread, marked, runs, email, answer, resp, job, page_id,
                   number, props, calls, log>>

\* lines 431-434 with get_email_content (lines 77-103): on an HttpError the
\* content is {} and the loop continues with the next message
GetEmailContent(r) ==
    /\ pc[r] = "fetch"
    /\ ResetLocals(r)
    /\ \/ \E payload \in InboxPayloads :
            /\ email' = [email EXCEPT ![r] = EmailData(payload)]
            /\ pc' = [pc EXCEPT ![r] = "classify"]
            /\ UNCHANGED <<idx, log>>
       \/ /\ email' = [email EXCEPT ![r] = NoEmailData]
          /\ NextMessage(r)
          /\ Logged(r, "fetch_failed")
    /\ UNCHANGED <<store, unread, marked, runs, msgs>>

\* lines 446-452 with is_job_application (lines 149-173): the call to the
\* model is not guarded, so its exception leaves process_emails
IsJobApplication(r) ==
    /\ pc[r] = "classify"
    /\ Called(r, {"classify"})
    /\ \/ /\ pc' = [pc EXCEPT ![r] = "raised"]
          /\ Logged(r, "raised")
          /\ UNCHANGED answer
       \/ \E a \in ClassifierAnswers :
            /\ answer' = [answer EXCEPT ![r] = a]
            /\ IF IsJobApplicationAnswer(a)
               THEN /\ pc' = [pc EXCEPT ![r] = "extract"]
                    /\ UNCHANGED log
               ELSE /\ pc' = [pc EXCEPT ![r] = "mark"]
                    /\ Logged(r, "skipped_irrelevant")
    /\ UNCHANGED <<store, unread, marked, runs, email, msgs, idx, resp, job, page_id,
                   number, props>>

\* lines 457-465 with extract_job_info (lines 175-238): the call to the model
\* (line 196) is outside the try block
ExtractJob(r) ==
    /\ pc[r] = "extract"
    /\ Called(r, {"extract"})
    /\ \/ /\ pc' = [pc EXCEPT ![r] = "raised"]
          /\ Logged(r, "raised")
          /\ UNCHANGED <<resp, job>>
       \/ \E c \in ExtractAnswers :
            LET res == ExtractJobInfo(c)
            IN  /\ resp' = [resp EXCEPT ![r] = c]
                /\ job' = [job EXCEPT ![r] = res.job]
                /\ IF res.raised
                   THEN /\ pc' = [pc EXCEPT ![r] = "raised"]
                        /\ Logged(r, "raised")
                   ELSE IF res.job = NoJob
                        THEN /\ pc' = [pc EXCEPT ![r] = "mark"]
                             /\ Logged(r, "skipped_extraction_failed")
                        ELSE /\ pc' = [pc EXCEPT ![r] = "lookup"]
                             /\ UNCHANGED log
    /\ UNCHANGED <<store, unread, marked, runs, email, msgs, idx, answer, page_id,
                   number, props>>

\* lines 470-477: job_exists decides between update and create; any of its
\* search requests may raise
Lookup(r) ==
    /\ pc[r] = "lookup"
    /\ Called(r, {"job_exists"})
    /\ \E failAt \in 0..NumRequests(store) :
         LET existing_page_id == JobExists(store, job[r].role, job[r].organization, failAt)
         IN  /\ page_id' = [page_id EXCEPT ![r] = existing_page_id]
             /\ pc' = [pc EXCEPT ![r] = IF existing_page_id # 0 THEN "update" ELSE "create"]
    /\ UNCHANGED <<store, unread, marked, runs, email, msgs, idx, answer, resp, job,
                   number, props, log>>

\* line 474 with update_job_application (lines 385-408): pages.update is
\* called when there is something to send, and may raise
UpdateJobApplication(r) ==
    /\ pc[r] = "update"
    /\ Called(r, {"update_job_application"})
    /\ LET properties == UpdateProperties(job[r])
       IN  /\ props' = [props EXCEPT ![r] = properties]
           /\ \/ /\ store' = IF DOMAIN properties # {}
                             THEN PagesUpdate(store, page_id[r], properties)
                             ELSE store
                 /\ Logged(r, "updated")
              \/ /\ DOMAIN properties # {}
                 /\ store' = store
                 /\ Logged(r, "failed")
    /\ pc' = [pc EXCEPT ![r] = "mark"]
    /\ UNCHANGED <<unread, marked, runs, email, msgs, idx, answer, resp, job, page_id,
                   number>>

\* line 477 with create_job_application, lines 341-372: the checks of role
\* and organization, the number, the properties
CreateJobApplication(r) ==
    /\ pc[r] = "create"
    /\ Called(r, {"create_job_application"})
    /\ IF ~CreateAccepts(job[r])
       THEN /\ pc' = [pc EXCEPT ![r] = "mark"]
            /\ Logged(r, "failed")
            /\ UNCHANGED <<job, number, props>>
       ELSE \E failAt \in 0..NumRequests(store) :
              LET n == GetNextNumber(store, failAt)
              IN  /\ job' = [job EXCEPT ![r] = [@ EXCEPT !.role = PyStrip(@),
                                                       !.organization = PyStrip(@)]]
                  /\ number' = [number EXCEPT ![r] = n]
                  /\ props' = [props EXCEPT ![r] = CreateProperties(job[r], n)]
                  /\ pc' = [pc EXCEPT ![r] = "pages_create"]
                  /\ UNCHANGED log
    /\ UNCHANGED <<store, unread, marked, runs, email, msgs, idx, answer, resp, page_id>>

\* lines 374-383: pages.create writes the page or raises
CreatePage(r) ==
    /\ pc[r] = "pages_create"
    /\ \/ /\ store' = PagesCreate(store, props[r])
          /\ Logged(r, "created")
       \/ /\ store' = store
          /\ Logged(r, "failed")
    /\ pc' = [pc EXCEPT ![r] = "mark"]
    /\ UNCHANGED <<unread, marked, runs, email, msgs, idx, answer, resp, job, page_id,
                   number, props, calls>>

\* lines 451, 464, 480 with mark_as_read (lines 131-140): the label is
\* removed unless the request fails; the loop goes on either way
MarkAsRead(r) ==
    /\ pc[r] = "mark"
    /\ marked' = marked \cup {MsgId(r)}
    /\ \E ok \in BOOLEAN : unread' = IF ok THEN unread \ {MsgId(r)} ELSE unread
    /\ NextMessage(r)
    /\ UNCHANGED <<store, runs, email, msgs, answer, resp, job, page_id, number, props,
                   calls, log>>

Next ==
    \/ \E r \in runs : GetUnreadEmails(r)
    \/ \E r \in runs : GetEmailContent(r)
    \/ \E r \in runs : IsJobApplication(r)
    \/ \E r \in runs : ExtractJob(r)
    \/ \E r \in runs : Lookup(r)
    \/ \E r \in runs : UpdateJobApplication(r)
    \/ \E r \in runs : CreateJobApplication(r)
    \/ \E r \in runs : CreatePage(r)
    \/ \E r \in runs : MarkAsRead(r)

Spec == Init /\ [][Next]_vars

\* ----------------------- two messages about one application, no store error
\* the answers of the extraction model that give a candidate, in some order
CandidateAnswers ==
    LET A == {c \in ExtractAnswers : c.kind = "object"}
    IN  CHOOSE s \in [1..Cardinality(A) -> A] : {s[i] : i \in DOMAIN s} = A

\* messages 2n-1 and 2n are about application n: the model's answer to the
\* first is CandidateAnswers[n], its answer to the second any answer that
\* gives the same candidate
AnswersOfMsg(m) ==
    LET first == CandidateAnswers[(m + 1) \div 2]
    IN  IF m % 2 = 1
        THEN {first}
        ELSE {c \in ExtractAnswers :
                ExtractJobInfo(c) = ExtractJobInfo(first)}

\* the mailbox holds the two messages of one application
InitTwice ==
    /\ runs = {1}
    /\ store \in InitStores
    /\ \E n \in DOMAIN CandidateAnswers : unread = {2 * n - 1, 2 * n}
    /\ marked = {}
    /\ pc = [r \in runs |-> "start"]
    /\ msgs = [r \in runs |-> <<>>]
    /\ idx = [r \in runs |-> 0]
    /\ answer = [r \in runs |-> None]
    /\ resp = [r \in runs |-> NoContent]
    /\ job = [r \in runs |-> NoJob]
    /\ page_id = [r \in runs |-> 0]
    /\ number = [r \in runs |-> 0]
    /\ props = [r \in runs |-> EmptyDict]
    /\ calls = [r \in runs |-> {}]
    /\ log = [r \in runs |-> <<>>]
    /\ email = [r \in runs |-> NoEmailData]

\* the steps of process_emails when the mail and model calls succeed, the
\* classifier says YES, and no request to the store fails
NextTwice ==
    \/ \E r \in runs : GetUnreadEmails(r) /\ msgs'[r] # <<>>
    \/ \E r \in runs : GetEmailContent(r) /\ pc'[r] = "classify"
    \/ \E r \in runs : IsJobApplication(r) /\ pc'[r] = "extract"
    \/ \E r \in runs : ExtractJob(r) /\ resp'[r] \in AnswersOfMsg(MsgId(r))
    \/ \E r \in runs : Lookup(r) /\ page_id'[r] = JobExists(store, job[r].role,
                                                          job[r].organization, 0)
    \/ \E r \in runs : UpdateJobApplication(r) /\ LastLog(r)' = "updated"
    \/ \E r \in runs : CreateJobApplication(r)
                         /\ (pc'[r] = "pages_create"
                               => number'[r] = GetNextNumber(store, 0))
    \/ \E r \in runs : CreatePage(r) /\ LastLog(r)' = "created"
    \/ \E r \in runs : MarkAsRead(r)

SpecTwice == InitTwice /\ [][NextTwice]_vars

\* ------------------------- one or two invocations against the same store
\* process_emails is started once, or twice at the same time, with one
\* unread message in the mailbox
InitRace ==
    /\ runs \in {{1}, {1, 2}}
    /\ store \in InitStores
    /\ unread = {1}
    /\ marked = {}
    /\ pc = [r \in runs |-> "start"]
    /\ msgs = [r \in runs |-> <<>>]
    /\ idx = [r \in runs |-> 0]
    /\ answer = [r \in runs |-> None]
    /\ resp = [r \in runs |-> NoContent]
    /\ job = [r \in runs |-> NoJob]
    /\ page_id = [r \in runs |-> 0]
    /\ number = [r \in runs |-> 0]
    /\ props = [r \in runs |-> EmptyDict]
    /\ calls = [r \in runs |-> {}]
    /\ log = [r \in runs |-> <<>>]
    /\ email = [r \in runs |-> NoEmailData]

\* the steps of the invocations interleave freely
SpecRace == InitRace /\ [][Next]_vars

\* ------------------------------------ extract_job_info over many answers
\* a key the model left out of its answer
Absent == [t |-> "absent", s |-> <<>>, n |-> 0, b |-> FALSE]

\* the JSON object with the given values, the absent ones left out
Answer(role, organization, status, link) ==
    LET all == Obj(<<"role", "organization", "status", "job_description_link">>,
                   <<role, organization, status, link>>)
    IN  [k \in {x \in DOMAIN all : all[x] # Absent} |-> all[k]]

\* a string as given, in upper case, in lower case and capitalized
Cases(s) == {s, PyUpper(s), PyLower(s), PyCapitalize(s)}

\* the strings of cores in every case with up to MaxPad spaces on each side
Padded(cores) ==
    UNION { { JStr(Pad(l) \o c \o Pad(r)) : l \in 0..MaxPad, r \in 0..MaxPad }
            : c \in UNION { Cases(core) : core \in cores } }

\* values that are not strings
NonStrings == {Absent, JNull, JNum(0), JNum(5), JBool(FALSE), JBool(TRUE)}

RoleValues   == NonStrings \cup Padded({<<>>, S_null, S_unknown, S_SWE})
OrgValues    == NonStrings \cup Padded({<<>>, S_null, S_unknown, S_Acme})
StatusInputs == NonStrings \cup Padded({<<>>, S_Applied, S_Interview, S_Rejected,
                                        <<"o","f","f","e","r">>})
LinkValues   == NonStrings \cup Padded({<<>>, S_null, S_Url1})

\* the answers extract_job_info is applied to: one field ranges over all its
\* values while the others take two values each
ManyAnswers ==
    LET fewR == {JStr(S_SWE), JStr(Pad(1))}
        fewO == {JStr(S_Acme), Absent}
        fewS == {JStr(PyLower(S_Interview)), JNull}
        fewL == {Absent, JStr(S_Url2)}
    IN  { Content("empty", EmptyDict), Content("invalid", EmptyDict),
          Content("nonobject", EmptyDict) }
        \cup { Content("object", Answer(r, o, t, l)) :
                 r \in RoleValues, o \in fewO, t \in fewS, l \in fewL }
        \cup { Content("object", Answer(r, o, t, l)) :
                 r \in fewR, o \in OrgValues, t \in fewS, l \in fewL }
        \cup { Content("object", Answer(r, o, t, l)) :
                 r \in fewR, o \in fewO, t \in StatusInputs, l \in fewL }
        \cup { Content("object", Answer(r, o, t, l)) :
                 r \in fewR, o \in fewO, t \in fewS, l \in LinkValues }

\* the model has answered; the store holds one page of the database
InitExtract ==
    /\ runs = {1}
    /\ store = << Page(1, DatabaseIdWithHyphens, 1, S_Dev, S_Acme, S_Interview, S_Url1) >>
    /\ unread = {1}
    /\ marked = {}
    /\ pc = [r \in {1} |-> "x_extract"]
    /\ msgs = [r \in {1} |-> <<1>>]
    /\ idx = [r \in {1} |-> 1]
    /\ answer = [r \in {1} |-> S_YES]
    /\ resp \in [{1} -> ManyAnswers]
    /\ job = [r \in {1} |-> NoJob]
    /\ page_id = [r \in {1} |-> 0]
    /\ number = [r \in {1} |-> 0]
    /\ props = [r \in {1} |-> EmptyDict]
    /\ calls = [r \in {1} |-> {}]
    /\ log = [r \in {1} |-> <<>>]
    /\ email = [r \in {1} |-> NoEmailData]

\* extract_job_info applied to the answer
XExtract(r) ==
    /\ pc[r] = "x_extract"
    /\ LET res == ExtractJobInfo(resp[r])
       IN  /\ job' = [job EXCEPT ![r] = res.job]
           /\ pc' = [pc EXCEPT ![r] = IF res.raised THEN "raised"
                                      ELSE IF res.job = NoJob THEN "x_none"
                                      ELSE "x_job"]
    /\ Called(r, {"extract"})
    /\ UNCHANGED <<store, unread, marked, runs, email, msgs, idx, answer, resp,
                   page_id, number, props, log>>

\* create_job_application applied to the candidate, no request failing
XCreate(r) ==
    /\ pc[r] = "x_job"
    /\ CreateAccepts(job[r])
    /\ LET n == GetNextNumber(store, 0)
           properties == CreateProperties(job[r], n)
       IN  /\ number' = [number EXCEPT ![r] = n]
           /\ props' = [props EXCEPT ![r] = properties]
           /\ store' = PagesCreate(store, properties)
    /\ pc' = [pc EXCEPT ![r] = "x_created"]
    /\ Called(r, {"create_job_application"})
    /\ UNCHANGED <<unread, marked, runs, email, msgs, idx, answer, resp, job, page_id, log>>

\* update_job_application applied to the candidate and the page of the store
XUpdate(r) ==
    /\ pc[r] = "x_job"
    /\ LET properties == UpdateProperties(job[r])
       IN  /\ props' = [props EXCEPT ![r] = properties]
           /\ store' = IF DOMAIN properties # {}
                       THEN PagesUpdate(store, store[1].id, properties)
                       ELSE store
    /\ page_id' = [page_id EXCEPT ![r] = store[1].id]
    /\ pc' = [pc EXCEPT ![r] = "x_updated"]
    /\ Called(r, {"update_job_application"})
    /\ UNCHANGED <<unread, marked, runs, email, msgs, idx, answer, resp, job, number, log>>

NextExtract ==
    \/ \E r \in runs : XExtract(r)
    \/ \E r \in runs : XCreate(r)
    \/ \E r \in runs : XUpdate(r)

SpecExtract == InitExtract /\ [][NextExtract]_vars

\* ------------------------------------------ _extract_body over many payloads
H_Lt == <<"1","<","2">>

\* the parts a multi-part payload is made of
PartChoices ==
    { Part("text/plain", T_Hi), Part("text/plain", T_Bye), Part("text/plain", None),
      Part("text/html", H_Hi), Part("text/html", H_Ok), Part("text/html", H_Break),
      Part("text/html", H_Lt), Part("application/pdf", None),
      Multipart("multipart/alternative", <<Part("text/html", H_Hi)>>) }

\* the sequences of n parts
RECURSIVE PartSeqs(_)
PartSeqs(n) ==
    IF n = 0
    THEN {<<>>}
    ELSE {<<p>> \o ps : p \in PartChoices, ps \in PartSeqs(n - 1)}

\* single-part payloads and multi-part payloads of up to MaxParts parts
BodyPayloads ==
    {p \in PartChoices : ~p.hasParts}
    \cup {Multipart("multipart/mixed", ps) : ps \in UNION {PartSeqs(n) : n \in 0..MaxParts}}

\* a message has been fetched and its body is to be extracted
InitBody ==
    /\ runs = {1}
    /\ store = <<>>
    /\ unread = {1}
    /\ marked = {}
    /\ pc = [r \in {1} |-> "b_payload"]
    /\ msgs = [r \in {1} |-> <<1>>]
    /\ idx = [r \in {1} |-> 1]
    /\ answer = [r \in {1} |-> None]
    /\ resp = [r \in {1} |-> NoContent]
    /\ job = [r \in {1} |-> NoJob]
    /\ page_id = [r \in {1} |-> 0]
    /\ number = [r \in {1} |-> 0]
    /\ props = [r \in {1} |-> EmptyDict]
    /\ calls = [r \in {1} |-> {}]
    /\ log = [r \in {1} |-> <<>>]
    /\ \E payload \in BodyPayloads :
          email = [r \in {1} |-> [empty |-> FALSE, payload |-> payload, body |-> <<>>]]

\* line 92: _extract_body applied to the payload
BExtractBody(r) ==
    /\ pc[r] = "b_payload"
    /\ email' = [email EXCEPT ![r] = EmailData(@.payload)]
    /\ pc' = [pc EXCEPT ![r] = "b_body"]
    /\ UNCHANGED <<store, unread, marked, runs, msgs, idx, answer, resp, job,
                   page_id, number, props, calls, log>>

NextBody == \E r \in runs : BExtractBody(r)

SpecBody == InitBody /\ [][NextBody]_vars

\* ============================================================ properties
\* the pages of the target database, by position in the store
DbPages(st) == {i \in 1..Len(st) : st[i].parent \in GetDbIdFormats(DatabaseId)}

\* the natural key of a page or of a candidate: trimmed role and organization
PageKey(p) == <<PyStrip(p.props["Role"]), PyStrip(p.props["Organization"])>>
JobKey(j) == <<PyStrip(j.role), PyStrip(j.organization)>>

\* the largest number among the pages of the database, 0 if there is none
MaxNumber(st) ==
    LET nums == {st[i].props["Number"] : i \in DbPages(st)}
    IN  IF nums = {} THEN 0 ELSE CHOOSE n \in nums : \A m \in nums : m <= n

\* iteration k of run r is over: the loop has moved on, or an exception has
\* left process_emails in that iteration
IterationOver(r, k) == k < idx[r] \/ (k = idx[r] /\ pc[r] = "raised")

\* C1: every message of the list is marked as read (mark_as_read is called
\* for its id) by the end of its own iteration, whatever happened in it.
C1_MarkedByEndOfIteration ==
    \A r \in runs : \A k \in 1..Len(msgs[r]) :
        IterationOver(r, k) => msgs[r][k] \in marked

\* C2: for every candidate exactly one of create_job_application and
\* update_job_application is invoked, and it is update exactly when the store
\* holds a page of the database with the candidate's trimmed key, whatever
\* the outcome of the lookup's search requests.
C2_CreateOrUpdateByStore ==
    \A r \in runs :
        /\ pc[r] \in {"create", "update"} =>
              (pc[r] = "update" <=>
                  \E i \in DbPages(store) : PageKey(store[i]) = JobKey(job[r]))
        /\ (job[r] # NoJob /\ pc[r] \in {"pages_create", "mark"}) =>
              Cardinality(calls[r] \cap {"create_job_application",
                                         "update_job_application"}) = 1

\* C3: starting from a store without two pages of the same trimmed key, no
\* reachable store has two pages of the database with the same trimmed key.
C3_NaturalKeyUnique ==
    \A i \in DbPages(store) : \A j \in DbPages(store) :
        i # j => PageKey(store[i]) # PageKey(store[j])

\* C4: a create_job_application that writes a page gives it one more than
\* the largest number among the pages of the database before the write, or 1
\* if there were none.
C4_CreateAssignsMaxPlusOne ==
    \A r \in runs :
        (pc[r] = "mark" /\ LastLog(r) = "created") =>
            store[Len(store)].props["Number"]
                = MaxNumber(SubSeq(store, 1, Len(store) - 1)) + 1

\* C5: the numbers of the pages of the database are positive and pairwise
\* distinct in every reachable store, and a new page's number is greater
\* than every number already there, whatever the search requests return.
C5_NumbersNeverReused ==
    /\ \A i \in DbPages(store) : store[i].props["Number"] > 0
    /\ \A i \in DbPages(store) : \A j \in DbPages(store) :
          i # j => store[i].props["Number"] # store[j].props["Number"]
    /\ \A r \in runs :
          (pc[r] = "mark" /\ LastLog(r) = "created") =>
              store[Len(store)].props["Number"]
                  > MaxNumber(SubSeq(store, 1, Len(store) - 1))

\* the page of the store with the given id
PageById(st, id) == st[CHOOSE i \in 1..Len(st) : st[i].id = id]

\* C6: an update whose candidate has no link leaves the stored link as it
\* was; an update whose candidate has a link sends that link and, when the
\* store accepts the update, the stored link is the candidate's; no step
\* ever empties a stored link.
C6_LinkNonDestructive ==
    [][ /\ \A r \in runs :
              (pc[r] = "update" /\ pc'[r] = "mark") =>
                 LET link   == job[r].job_description_link
                     before == PageById(store, page_id[r]).props["Job description"]
                     after  == PageById(store', page_id[r]).props["Job description"]
                 IN  /\ link = None => ("Job description" \notin DOMAIN props'[r]
                                          /\ after = before)
                     /\ link # None =>
                           /\ "Job description" \in DOMAIN props'[r]
                           /\ props'[r]["Job description"] = link
                           /\ LastLog(r)' = "updated" => after = link
        /\ \A i \in 1..Len(store) :
              store[i].props["Job description"] # None =>
                  /\ i <= Len(store')
                  /\ NonEmpty(store'[i].props["Job description"])
      ]_vars

\* an update without a link has gone through and the page still has its link
C6_Witness ==
    \E r \in runs :
        /\ pc[r] = "mark" /\ LastLog(r) = "updated"
        /\ job[r].job_description_link = None
        /\ PageById(store, page_id[r]).props["Job description"] = S_Url1

\* C7: role, organization and number of a page never change once it exists;
\* an update sends only the status and, if the candidate has one, the link,
\* and changes nothing but these two properties of the matched page.
C7_UpdateFrame ==
    [][ /\ \A i \in 1..Len(store) :
              /\ i <= Len(store')
              /\ store'[i].id = store[i].id
              /\ store'[i].parent = store[i].parent
              /\ \A k \in {"Role", "Organization", "Number"} :
                    store'[i].props[k] = store[i].props[k]
        /\ \A r \in runs :
              (pc[r] = "update" /\ pc'[r] = "mark") =>
                 /\ DOMAIN props'[r] \subseteq {"Status", "Job description"}
                 /\ "Job description" \in DOMAIN props'[r]
                       <=> job[r].job_description_link # None
                 /\ Len(store') = Len(store)
                 /\ \A i \in 1..Len(store) :
                       /\ store[i].id # page_id[r] => store'[i] = store[i]
                       /\ \A k \in PropNames \ {"Status", "Job description"} :
                             store'[i].props[k] = store[i].props[k]
      ]_vars

\* an update has changed the status of a page whose stored role is not the
\* candidate's role letter for letter
C7_Witness ==
    \E r \in runs :
        /\ pc[r] = "mark" /\ LastLog(r) = "updated"
        /\ PageById(store, page_id[r]).props["Role"] # job[r].role
        /\ PageById(store, page_id[r]).props["Status"] = S_Interview
        /\ Len(store) = 3

\* the model's value for a key is absent, null, empty, or "null" / "unknown"
\* in any case
Nullish(data, key) ==
    \/ key \notin DOMAIN data
    \/ data[key] = JNull
    \/ /\ data[key].t = "str"
       /\ \/ data[key].s = <<>>
          \/ PyLower(data[key].s) \in {S_null, S_unknown}

RecognizedStatus(data) ==
    /\ "status" \in DOMAIN data
    /\ PyLower(PyStrip(PyStr(data["status"]))) \in {PyLower(v) : v \in StatusValues}

\* C9: whatever the model's status is, the candidate's status and the status
\* sent to and stored by create or update is one of Applied, Interview,
\* Rejected, and it is Applied when the model's status is none of the three.
C9_StatusClosure ==
    \A r \in runs :
        /\ job[r] # NoJob =>
              /\ job[r].status \in StatusValues
              /\ ~RecognizedStatus(resp[r].data) => job[r].status = S_Applied
        /\ "Status" \in DOMAIN props[r] =>
              /\ props[r]["Status"] \in StatusValues
              /\ ~RecognizedStatus(resp[r].data) => props[r]["Status"] = S_Applied
        /\ pc[r] = "x_created" =>
              /\ store[Len(store)].props["Status"] \in StatusValues
              /\ ~RecognizedStatus(resp[r].data)
                    => store[Len(store)].props["Status"] = S_Applied
        /\ pc[r] = "x_updated" =>
              /\ PageById(store, page_id[r]).props["Status"] \in StatusValues
              /\ ~RecognizedStatus(resp[r].data)
                    => PageById(store, page_id[r]).props["Status"] = S_Applied

\* the model said OFFER with spaces around it and the page of the store,
\* which was at Interview, has been updated to Applied
C9_Witness ==
    \E r \in runs :
        /\ pc[r] = "x_updated"
        /\ "status" \in DOMAIN resp[r].data
        /\ resp[r].data["status"] = JStr(Pad(1) \o <<"O","F","F","E","R">> \o Pad(1))
        /\ PageById(store, page_id[r]).props["Status"] = S_Applied

\* the answer of the extraction model is empty, is not JSON, or is JSON but
\* not an object
Unparseable(c) == c.kind \in {"empty", "invalid", "nonobject"}

\* C10: for an answer that is not parseable as the expected object,
\* extract_job_info returns nothing, no store lookup or write is made for the
\* message, the message is marked as read and the loop goes on.
C10_UnparseableSkipped ==
    \A r \in runs :
        Unparseable(resp[r]) =>
            /\ job[r] = NoJob
            /\ calls[r] \cap {"job_exists", "create_job_application",
                              "update_job_application"} = {}
            /\ pc[r] \in {"mark", "fetch", "done"}
            /\ pc[r] # "mark" => msgs[r][idx[r] - 1] \in marked

\* C11: a failing external call touches only its own message: the run is
\* never left by an exception, and when it is over every message of the list
\* has been dealt with.
C11_ErrorIsolation ==
    \A r \in runs :
        /\ pc[r] # "raised"
        /\ pc[r] = "done" => Len(log[r]) = Len(msgs[r])

\* the positions of the parts of the given type that carry data
DataParts(payload, mimeType) ==
    {i \in 1..Len(payload.parts) :
        payload.parts[i].mimeType = mimeType /\ NonEmptyData(payload.parts[i].data)}

\* the data of the text/plain parts from position i on, one after the other
RECURSIVE PlainText(_, _)
PlainText(payload, i) ==
    IF i > Len(payload.parts)
    THEN <<>>
    ELSE (IF i \in DataParts(payload, "text/plain") THEN payload.parts[i].data ELSE <<>>)
         \o PlainText(payload, i + 1)

\* C13: for a message whose only textual content is an HTML part, be it a
\* part of a multi-part message or the single text/html payload, the body is
\* that part with its tags stripped.
C13_HtmlOnlyBody ==
    \A r \in runs :
        pc[r] = "b_body" =>
            LET payload == email[r].payload
            IN  /\ (~payload.hasParts /\ payload.mimeType = "text/html"
                     /\ NonEmptyData(payload.data))
                      => email[r].body = StripTags(payload.data)
                /\ (payload.hasParts /\ DataParts(payload, "text/plain") = {}
                     /\ Cardinality(DataParts(payload, "text/html")) = 1)
                      => \A i \in DataParts(payload, "text/html") :
                            email[r].body = StripTags(payload.parts[i].data)

\* C14: for a multi-part message with a non-empty text/plain part the body
\* is the text/plain parts one after the other, in whatever order plain and
\* HTML parts come.
C14_PlainPartsOnly ==
    \A r \in runs :
        (pc[r] = "b_body" /\ email[r].payload.hasParts
            /\ DataParts(email[r].payload, "text/plain") # {})
          => email[r].body = PlainText(email[r].payload, 1)


\* the position of a step in the chain of one message
Rank(p) ==
    CASE p = "start"        -> 0
      [] p = "fetch"        -> 1
      [] p = "classify"     -> 2
      [] p = "extract"      -> 3
      [] p = "lookup"       -> 4
      [] p = "update"       -> 5
      [] p = "create"       -> 5
      [] p = "pages_create" -> 6
      [] p = "mark"         -> 7
      [] OTHER              -> 8

\* C16: the messages are taken one at a time in the order of the list: the
\* position in the list never goes back and moves on by one only from the
\* fetch or the mark-as-read step; within one message the steps follow the
\* chain fetch, classify, extract, reconcile, mark and none is taken twice, so
\* there is at most one classify call, one extract call and one store write
\* per message, and no retry.
C16_StrictOrderNoRetry ==
    [][ \A r \in runs :
          /\ pc[r] # "start" => msgs'[r] = msgs[r]
          /\ idx'[r] = idx[r] \/ idx'[r] = idx[r] + 1
          /\ idx'[r] = idx[r] + 1 => pc[r] \in {"start", "fetch", "mark"}
          /\ (idx'[r] = idx[r] /\ pc'[r] # pc[r]) => Rank(pc'[r]) > Rank(pc[r])
          /\ pc[r] = "mark" => idx'[r] = idx[r] + 1
          /\ pc[r] = "classify" => ("classify" \notin calls[r] /\ pc'[r] # "classify")
          /\ pc[r] = "extract" => ("extract" \notin calls[r] /\ pc'[r] # "extract")
          /\ pc[r] \in {"update", "pages_create"} => pc'[r] = "mark"
          /\ store' # store => pc[r] \in {"update", "pages_create"}
      ]_vars

\* a run of two messages is over: the first created a page, the second
\* updated one
C16_Witness ==
    \E r \in runs :
        /\ pc[r] = "done" /\ Len(msgs[r]) = 2
        /\ log[r] = <<"created", "updated">>
        /\ marked = {1, 2}

\* the classifier's answer is the affirmative token
Affirmative(a) == a # None /\ PyUpper(PyStrip(a)) = S_YES

\* C17: when the classifier's answer for a message is anything but YES after
\* strip().upper() (empty and missing answers included), no extract call and
\* no store search, create or update is made for the message, the store stays
\* as it is, and mark_as_read is called for the message.
C17_FailClosedClassification ==
    [][ \A r \in runs :
          ("classify" \in calls'[r] /\ pc'[r] # "raised" /\ ~Affirmative(answer'[r])) =>
              /\ store' = store
              /\ calls'[r] = {"classify"}
              /\ job'[r] = NoJob /\ page_id'[r] = 0 /\ DOMAIN props'[r] = {}
              /\ pc'[r] \in {"mark", "fetch", "done"}
              /\ LastLog(r)' = "skipped_irrelevant"
              /\ pc'[r] # "mark" => msgs'[r][idx'[r] - 1] \in marked'
      ]_vars

\* a message answered "YES." has been marked as read with nothing else done
C17_Witness ==
    \E r \in runs :
        /\ pc[r] = "done" /\ calls[r] = {"classify"}
        /\ answer[r] = <<"Y","E","S",".">>
        /\ msgs[r][idx[r] - 1] \in marked
        /\ store \in InitStores /\ store # <<>>

\* role or organization of the candidate is empty after trimming
EmptyKey(j) == PyStrip(j.role) = <<>> \/ PyStrip(j.organization) = <<>>

\* C18: no page with an empty trimmed role or organization is in the store,
\* and for a candidate with such a key job_exists finds nothing,
\* create_job_application fails before the number scan and pages.create, no
\* update is made, no exception leaves process_emails and mark_as_read is
\* called.
C18_NoEmptyKeyPersisted ==
    [][ /\ \A i \in 1..Len(store') :
              /\ PyStrip(store'[i].props["Role"]) # <<>>
              /\ PyStrip(store'[i].props["Organization"]) # <<>>
        /\ \A r \in runs :
              (pc[r] \in {"lookup", "create", "mark"} /\ EmptyKey(job[r])) =>
                  /\ store' = store
                  /\ pc[r] = "lookup" => (page_id'[r] = 0 /\ pc'[r] = "create")
                  /\ pc[r] = "create" =>
                        /\ pc'[r] = "mark" /\ LastLog(r)' = "failed"
                        /\ number'[r] = 0 /\ DOMAIN props'[r] = {}
                  /\ pc[r] = "mark" =>
                        /\ calls[r] = {"classify", "extract", "job_exists",
                                       "create_job_application"}
                        /\ MsgId(r) \in marked'
      ]_vars

\* a candidate with an empty role has been refused and its message marked
C18_Witness ==
    \E r \in runs :
        /\ pc[r] \in {"fetch", "done"} /\ job[r] # NoJob /\ job[r].role = <<>>
        /\ LastLog(r) = "failed"
        /\ "create_job_application" \in calls[r]
        /\ msgs[r][idx[r] - 1] \in marked

\* C20: after an update the store accepted, the status of the matched page
\* is the candidate's status, one of the three values, whatever it was
\* before; the status is always among the properties sent, so pages.update
\* is always called.
C20_StatusLastWriterWins ==
    [][ \A r \in runs :
          (pc[r] = "update" /\ pc'[r] = "mark") =>
              /\ job[r].status \in StatusValues
              /\ "Status" \in DOMAIN props'[r]
              /\ props'[r]["Status"] = job[r].status
              /\ LastLog(r)' = "updated" =>
                    PageById(store', page_id[r]).props["Status"] = job[r].status
      ]_vars

\* a page that was Rejected is Applied after an update whose status, offer,
\* is none of the three values
C20_Witness ==
    \E r \in runs :
        /\ pc[r] = "mark" /\ LastLog(r) = "updated" /\ page_id[r] = 3
        /\ resp[r].kind = "object" /\ "status" \in DOMAIN resp[r].data
        /\ resp[r].data["status"] = JStr(<<"o","f","f","e","r">>)
        /\ PageById(store, 3).props["Status"] = S_Applied
        /\ Len(log[r]) = 1


\* the keys looked up: those of the candidates and of the sample pages
LookupKeys == {S_SWE, S_Dev, S_UnknownRole} \X {S_Acme, S_UnknownOrganization}

\* the id of the first page of the database, in store order, with the given
\* trimmed key; 0 if there is none
FirstDbMatch(st, key) ==
    LET hits == {i \in DbPages(st) : PageKey(st[i]) = key}
    IN  IF hits = {} THEN 0
        ELSE st[CHOOSE i \in hits : \A m \in hits : i <= m].id

\* C19: when no request fails, job_exists returns the first page of the
\* database (under either form of its id) with the candidate's trimmed key
\* wherever in the store it lies, and nothing when there is none;
\* get_next_number returns one more than the largest number of the pages of
\* the database wherever it lies; both scans stop at the request that
\* reports has_more false, after as many requests as the store has pages of
\* results; and the page an update is made for is that first match.  The
\* scans are compared on the store a run starts from and on the store as
\* every write leaves it.
C19_FullScan ==
    \A r \in runs :
        /\ pc[r] \in {"start", "mark"} =>
              /\ \A key \in LookupKeys :
                    JobExists(store, key[1], key[2], 0) = FirstDbMatch(store, key)
              /\ GetNextNumber(store, 0) = MaxNumber(store) + 1
              /\ ScanRequests(store, 1) = NumRequests(store)
              /\ ~SearchHasMore(store, ScanRequests(store, 1))
              /\ \A k \in 1..(ScanRequests(store, 1) - 1) : SearchHasMore(store, k)
        /\ pc[r] = "update" => page_id[r] = FirstDbMatch(store, JobKey(job[r]))

\* an update is about to be made for a page that lies beyond the first page
\* of results, in a store that begins with a page of another parent
C19_Witness ==
    \E r \in runs :
        /\ pc[r] = "update" /\ page_id[r] > PageSize
        /\ store[1].parent = OtherParentId
        /\ store[page_id[r]].parent \in GetDbIdFormats(DatabaseId)


\* the pages of the database with the key of candidate j
RowsOf(st, j) == {i \in DbPages(st) : PageKey(st[i]) = JobKey(j)}

SharedNumber(st, n) ==
    \E i, j \in DbPages(st) :
        i # j /\ st[i].props["Number"] = n /\ st[j].props["Number"] = n

\* C15: in a single invocation nothing comes between the scan of
\* get_next_number and pages.create: the number about to be written is the
\* one a scan of the store as it is now gives, so no two pages ever share a
\* number above 1 (1 is what a failed scan gives).  With two invocations the
\* scan of one can come before the create of the other, and two pages end up
\* with the same number (C15_Witness).
C15_SingleInvocationNoRace ==
    Cardinality(runs) = 1 =>
        /\ \A r \in runs :
              pc[r] = "pages_create" =>
                  \E failAt \in 0..NumRequests(store) :
                      number[r] = GetNextNumber(store, failAt)
        /\ \A i \in DbPages(store) :
              store[i].props["Number"] >= 2
                  => ~SharedNumber(store, store[i].props["Number"])

\* two invocations have each created a page, and the two pages carry the
\* same number above 1
C15_Witness ==
    /\ runs = {1, 2}
    /\ \A r \in runs : LastLog(r) = "created"
    /\ Len(store) >= 2
    /\ store[Len(store)].props["Number"] = store[Len(store) - 1].props["Number"]
    /\ store[Len(store)].props["Number"] >= 2
    /\ store[Len(store)].props["Number"] = number[1]
    /\ number[1] = number[2]

====
